---- MODULE Spec2Model ----
(***************************************************************************)
(* Model of src/lib/propagated-transaction.js: the PropagatedTransaction   *)
(* controller (start / commit / rollback / run / connection) driven by     *)
(* logical call chains that interleave at their suspension points, over an *)
(* external ITransactionRunner and node's AsyncLocalStorage.               *)
(*                                                                         *)
(* A chain follows the calling protocol of the repository's tests:         *)
(*     const connection = await ptx.start(level);                          *)
(*     await ptx.run(connection, callback);                                *)
(* and a callback may read ptx.connection, call ptx.commit() and           *)
(* ptx.rollback(), nest another start()/run(), throw, catch, and settle.   *)
(***************************************************************************)
EXTENDS Integers, Sequences, FiniteSets

\* ---------------------------------------------------------------- bounds
NumChains == 2
MaxDepth == 2
MaxBegins == 2
MaxCalls == 2
\* `new` expressions evaluated
MaxConstructions == 2
\* AsyncLocalStorage objects a caller can pass to a constructor
NumAls == 1

Chains == 1..NumChains

\* ------------------------------------------------------- connection values
\* als.getStore() outside every als.run()
Undefined == 0
\* a Connection the Runner may resolve that is falsy in JavaScript (0, '', null)
FalsyConn == MaxBegins + 1
\* Connections the Runner can hand out: MaxBegins objects and the falsy one
Conns == 1..(MaxBegins + 1)
\* what Runner.commit / Runner.rollback can be called with
Args == Conns \cup {Undefined}

\* JavaScript truthiness of a store value, as tested by `!x` and `x || y`
Truthy(v) == v # Undefined /\ v # FalsyConn

\* ------------------------------------------------------- isolation levels
LevelKeys == {"Serializable", "ReadCommitted", "RepeatableRead", "ReadUncommitted"}
NoArg == "noarg"

IsolationLevelsSwapped(key) ==
  CASE key = "Serializable" -> "SERIALIZABLE"
    [] key = "ReadCommitted" -> "READ UNCOMMITTED"
    [] key = "RepeatableRead" -> "REPEATABLE READ"
    [] key = "ReadUncommitted" -> "READ COMMITTED"

\* class IsolationLevels: the static string of each level
IsolationLevels(key) ==
  CASE key = "Serializable" -> "SERIALIZABLE"
    [] key = "ReadCommitted" -> "READ COMMITTED"
    [] key = "RepeatableRead" -> "REPEATABLE READ"
    [] key = "ReadUncommitted" -> "READ UNCOMMITTED"

\* start(isolationLevel = 'READ COMMITTED'): the argument start() passes on
StartLevel(arg) ==
  IF arg = NoArg THEN "READ COMMITTED" ELSE IsolationLevels(arg)

\* ------------------------------------------------------------------ state
VARIABLES
  stack,        \* chain -> the als.run() scopes the chain is inside, outermost first
  held,         \* chain -> the Connection start() returned, not yet given to run()
  exc,          \* chain -> the error being thrown in the chain, or "none"
  tx,           \* connection -> "free" | "begun" | "active" | "settled"
  owner,        \* connection -> the chain whose start() obtained it (0: nobody)
  runner,       \* the Runner given to the constructor: which of its calls rejects
  commits,      \* argument -> number of Runner.commit(argument) calls
  rollbacks,    \* argument -> number of Runner.rollback(argument) calls
  cbResult,     \* connection -> how the callback of the run() that bound it settled
  runResult,    \* connection -> how that run() settled for its caller
  beginCalls,   \* number of Runner.start() calls
  beginFailures,\* number of Runner.start() calls that rejected
  lastBegin,    \* the last Runner.start() call: what the caller asked, what was passed
  instance,     \* PropagatedTransaction.#instance: 0 (null) or the object it refers to
  objects,      \* the controller objects created so far: their runner and als fields
  handles,      \* what each `new` expression was given and the object it evaluated to
  received      \* the Runner calls made through the handles: which Runner got them

\* the state of the classes and of the controllers constructed from them
ctorVars == <<instance, objects, handles, received>>

\* the state of the transactions run through one controller
txVars == <<stack, held, exc, tx, owner, runner, commits, rollbacks,
            cbResult, runResult, beginCalls, beginFailures, lastBegin>>

vars == <<stack, held, exc, tx, owner, runner, commits, rollbacks,
          cbResult, runResult, beginCalls, beginFailures, lastBegin,
          instance, objects, handles, received>>

Faults == {"none", "commit", "rollback"}

\* what a callback can return
Values == {"v1", "v2"}

Init ==
  /\ stack = [ch \in Chains |-> <<>>]
  /\ held = [ch \in Chains |-> Undefined]
  /\ exc = [ch \in Chains |-> "none"]
  /\ tx = [c \in Conns |-> "free"]
  /\ owner = [c \in Conns |-> 0]
  /\ runner \in Faults
  /\ commits = [c \in Args |-> 0]
  /\ rollbacks = [c \in Args |-> 0]
  /\ cbResult = [c \in Conns |-> "pending"]
  /\ runResult = [c \in Conns |-> "pending"]
  /\ beginCalls = 0
  /\ beginFailures = 0
  /\ lastBegin = [req |-> "none", level |-> "none"]
  /\ instance = 0
  /\ objects = <<>>
  /\ handles = <<>>
  /\ received = {}

\* ------------------------------------------------------ AsyncLocalStorage
\* a single slot shared by all chains instead of a per-chain store
connectionShared(ch) ==
  LET inside == {o \in Chains : stack[o] # <<>>}
      o == CHOOSE x \in inside : \A y \in inside : x <= y
  IN IF inside = {} THEN Undefined ELSE stack[o][Len(stack[o])].store

\* a store that keeps the last Connection bound after run() has settled
connectionKept(ch) ==
  IF stack[ch] # <<>> THEN stack[ch][Len(stack[ch])].store
  ELSE IF \E c \in Conns : owner[c] = ch /\ tx[c] = "settled"
         THEN CHOOSE c \in Conns : owner[c] = ch /\ tx[c] = "settled"
         ELSE Undefined

\* get connection(): this.als.getStore() of the calling chain
connection(ch) ==
  IF stack[ch] = <<>> THEN Undefined ELSE stack[ch][Len(stack[ch])].store

\* ----------------------------------------------------------------- Runner
\* the Connection Runner.start() resolves: the falsy value (once) or the next object
FreshConns ==
  LET objs == {c \in Conns : c # FalsyConn /\ tx[c] = "free"}
  IN (IF tx[FalsyConn] = "free" THEN {FalsyConn} ELSE {})
       \cup {c \in objs : \A d \in objs : c <= d}

\* whether the promise of Runner.commit(c) / Runner.rollback(c) rejects
RunnerRejects(op, c) == runner = op

\* ------------------------------------------------------------- controller
\* the chain is executing code (no error is propagating through it)
Running(ch) == exc[ch] = "none"

InContextForgotten(ch) == TRUE

\* the test `if (!this.connection)` of commit() and rollback(), negated
InContext(ch) == Truthy(connection(ch))

\* start(): `this.connection ||` is truthy, the bound Connection is returned
StartReuse(ch, arg) ==
  /\ Running(ch) /\ held[ch] = Undefined /\ Len(stack[ch]) < MaxDepth
  /\ Truthy(connection(ch))
  /\ held' = [held EXCEPT ![ch] = connection(ch)]
  /\ UNCHANGED <<stack, exc, tx, owner, runner, commits, rollbacks,
                 cbResult, runResult, beginCalls, beginFailures, lastBegin>>
  /\ UNCHANGED ctorVars

\* start() that also enters the Connection into the store (als.enterWith)
StartBeginBinding(ch, arg) ==
  /\ Running(ch) /\ held[ch] = Undefined /\ Len(stack[ch]) < MaxDepth
  /\ ~Truthy(connection(ch))
  /\ beginCalls < MaxBegins
  /\ beginCalls' = beginCalls + 1
  /\ lastBegin' = [req |-> arg, level |-> StartLevel(arg)]
  /\ \E c \in FreshConns :
       /\ tx' = [tx EXCEPT ![c] = "begun"]
       /\ owner' = [owner EXCEPT ![c] = ch]
       /\ held' = [held EXCEPT ![ch] = c]
       /\ stack' = [stack EXCEPT ![ch] = Append(@, [store |-> c, own |-> FALSE])]
  /\ UNCHANGED <<exc, runner, commits, rollbacks, cbResult,
                 runResult, beginFailures>>
  /\ UNCHANGED ctorVars

\* start(): this.runner.start(isolationLevel) resolves a new Connection
StartBegin(ch, arg) ==
  /\ Running(ch) /\ held[ch] = Undefined /\ Len(stack[ch]) < MaxDepth
  /\ ~Truthy(connection(ch))
  /\ beginCalls < MaxBegins
  /\ beginCalls' = beginCalls + 1
  /\ lastBegin' = [req |-> arg, level |-> StartLevel(arg)]
  /\ \E c \in FreshConns :
       /\ tx' = [tx EXCEPT ![c] = "begun"]
       /\ owner' = [owner EXCEPT ![c] = ch]
       /\ held' = [held EXCEPT ![ch] = c]
  /\ UNCHANGED <<stack, exc, runner, commits, rollbacks, cbResult,
                 runResult, beginFailures>>
  /\ UNCHANGED ctorVars

StartFailsSwallowed(ch, arg) ==
  /\ Running(ch) /\ held[ch] = Undefined /\ Len(stack[ch]) < MaxDepth
  /\ ~Truthy(connection(ch))
  /\ beginCalls < MaxBegins
  /\ beginCalls' = beginCalls + 1
  /\ beginFailures' = beginFailures + 1
  /\ lastBegin' = [req |-> arg, level |-> StartLevel(arg)]
  /\ UNCHANGED <<stack, held, exc, tx, owner, runner, commits, rollbacks,
                 cbResult, runResult>>
  /\ UNCHANGED ctorVars

\* start(): this.runner.start(isolationLevel) rejects, and so does start()
StartFails(ch, arg) ==
  /\ Running(ch) /\ held[ch] = Undefined /\ Len(stack[ch]) < MaxDepth
  /\ ~Truthy(connection(ch))
  /\ beginCalls < MaxBegins
  /\ beginCalls' = beginCalls + 1
  /\ beginFailures' = beginFailures + 1
  /\ lastBegin' = [req |-> arg, level |-> StartLevel(arg)]
  /\ exc' = [exc EXCEPT ![ch] = "BeginError"]
  /\ UNCHANGED <<stack, held, tx, owner, runner, commits, rollbacks,
                 cbResult, runResult>>
  /\ UNCHANGED ctorVars

\* async start(isolationLevel = 'READ COMMITTED')
Start(ch) ==
  \E arg \in LevelKeys \cup {NoArg} :
    StartReuse(ch, arg) \/ StartBegin(ch, arg) \/ StartFails(ch, arg)

\* a commit() that remembers the Connection was released and refuses a second call
CommitOnlyOnce(ch) ==
  /\ Running(ch)
  /\ IF ~InContext(ch) \/ commits[connection(ch)] + rollbacks[connection(ch)] >= 1
       THEN /\ exc' = [exc EXCEPT ![ch] = "NotInContext"]
            /\ UNCHANGED commits
       ELSE LET c == connection(ch) IN
            /\ commits' = [commits EXCEPT ![c] = @ + 1]
            /\ exc' = [exc EXCEPT ![ch] =
                         IF RunnerRejects("commit", c) THEN "CommitError" ELSE "none"]
  /\ UNCHANGED <<stack, held, tx, owner, runner, rollbacks, cbResult,
                 runResult, beginCalls, beginFailures, lastBegin>>
  /\ UNCHANGED ctorVars

\* async commit()
Commit(ch) ==
  /\ Running(ch)
  /\ IF ~InContext(ch)
       THEN /\ exc' = [exc EXCEPT ![ch] = "NotInContext"]
            /\ UNCHANGED commits
       ELSE LET c == connection(ch) IN
            /\ commits[c] + rollbacks[c] < MaxCalls
            /\ commits' = [commits EXCEPT ![c] = @ + 1]
            /\ exc' = [exc EXCEPT ![ch] =
                         IF RunnerRejects("commit", c) THEN "CommitError" ELSE "none"]
  /\ UNCHANGED <<stack, held, tx, owner, runner, rollbacks, cbResult,
                 runResult, beginCalls, beginFailures, lastBegin>>
  /\ UNCHANGED ctorVars

\* async rollback()
Rollback(ch) ==
  /\ Running(ch)
  /\ IF ~InContext(ch)
       THEN /\ exc' = [exc EXCEPT ![ch] = "NotInContext"]
            /\ UNCHANGED rollbacks
       ELSE LET c == connection(ch) IN
            /\ commits[c] + rollbacks[c] < MaxCalls
            /\ rollbacks' = [rollbacks EXCEPT ![c] = @ + 1]
            /\ exc' = [exc EXCEPT ![ch] =
                         IF RunnerRejects("rollback", c) THEN "RollbackError" ELSE "none"]
  /\ UNCHANGED <<stack, held, tx, owner, runner, commits, cbResult,
                 runResult, beginCalls, beginFailures, lastBegin>>
  /\ UNCHANGED ctorVars

\* async run(connection, callback): this.als.run(connection, callback) is entered
Run(ch) ==
  /\ Running(ch) /\ held[ch] # Undefined /\ Len(stack[ch]) < MaxDepth
  /\ LET c == held[ch]
         first == tx[c] = "begun"
     IN /\ stack' = [stack EXCEPT ![ch] = Append(@, [store |-> c, own |-> first])]
        /\ tx' = [tx EXCEPT ![c] = IF first THEN "active" ELSE @]
  /\ held' = [held EXCEPT ![ch] = Undefined]
  /\ UNCHANGED <<exc, owner, runner, commits, rollbacks, cbResult,
                 runResult, beginCalls, beginFailures, lastBegin>>
  /\ UNCHANGED ctorVars

RunSettlesDropped(result) == "undefined"

\* what run() settles with: `return this.als.run(connection, callback)`
RunSettles(result) == result

\* a settling run() that leaves the chain with no store at all
SettleClearing(ch, result) ==
  LET top == stack[ch][Len(stack[ch])]
      c == top.store
  IN /\ stack' = [stack EXCEPT ![ch] = <<>>]
     /\ IF top.own
          THEN /\ tx' = [tx EXCEPT ![c] = "settled"]
               /\ cbResult' = [cbResult EXCEPT ![c] = result]
               /\ runResult' = [runResult EXCEPT ![c] = RunSettles(result)]
          ELSE UNCHANGED <<tx, cbResult, runResult>>

\* the scope of the innermost run() of the chain ends with the callback's result
Settle(ch, result) ==
  LET top == stack[ch][Len(stack[ch])]
      c == top.store
  IN /\ stack' = [stack EXCEPT ![ch] = SubSeq(@, 1, Len(@) - 1)]
     /\ IF top.own
          THEN /\ tx' = [tx EXCEPT ![c] = "settled"]
               /\ cbResult' = [cbResult EXCEPT ![c] = result]
               /\ runResult' = [runResult EXCEPT ![c] = RunSettles(result)]
          ELSE UNCHANGED <<tx, cbResult, runResult>>

\* the callback returns: run() resolves
CallbackResolves(ch) ==
  /\ Running(ch) /\ stack[ch] # <<>> /\ held[ch] = Undefined
  /\ \E v \in Values : Settle(ch, v)
  /\ UNCHANGED <<held, exc, owner, runner, commits, rollbacks,
                 beginCalls, beginFailures, lastBegin>>
  /\ UNCHANGED ctorVars

\* an error leaves the callback: run() rejects with it, in the caller
CallbackRejects(ch) ==
  /\ ~Running(ch) /\ stack[ch] # <<>>
  /\ Settle(ch, exc[ch])
  /\ UNCHANGED <<held, exc, owner, runner, commits, rollbacks,
                 beginCalls, beginFailures, lastBegin>>
  /\ UNCHANGED ctorVars

\* the callback's own work fails with its error E
Throw(ch) ==
  /\ Running(ch) /\ stack[ch] # <<>> /\ held[ch] = Undefined
  /\ exc' = [exc EXCEPT ![ch] = "E"]
  /\ UNCHANGED <<stack, held, tx, owner, runner, commits, rollbacks,
                 cbResult, runResult, beginCalls, beginFailures, lastBegin>>
  /\ UNCHANGED ctorVars

\* a try/catch of the calling code takes the error
Catch(ch) ==
  /\ ~Running(ch)
  /\ exc' = [exc EXCEPT ![ch] = "none"]
  /\ UNCHANGED <<stack, held, tx, owner, runner, commits, rollbacks,
                 cbResult, runResult, beginCalls, beginFailures, lastBegin>>
  /\ UNCHANGED ctorVars

Next ==
  \E ch \in Chains :
    \/ Start(ch)
    \/ Commit(ch)
    \/ Rollback(ch)
    \/ Run(ch)
    \/ CallbackResolves(ch)
    \/ CallbackRejects(ch)
    \/ Throw(ch)
    \/ Catch(ch)

Spec == Init /\ [][Next]_vars

TypeOK ==
  /\ \A ch \in Chains : Len(stack[ch]) <= MaxDepth
  /\ beginCalls <= MaxBegins

\* ------------------------------------------- IsolatedTransaction controller
\* src/lib/isolated-transaction.js, driven by the same chains through the same
\* protocol: start(), then run(connection, callback) with commit() and
\* rollback() called by the callback.

\* isolatedTransaction.connection: the class defines no such member
IsoConnection(ch) == Undefined

\* async start(): this.#runner.start() resolves a new Connection
IsoStartBegin(ch) ==
  /\ Running(ch) /\ held[ch] = Undefined /\ Len(stack[ch]) < MaxDepth
  /\ beginCalls < MaxBegins
  /\ beginCalls' = beginCalls + 1
  /\ lastBegin' = [req |-> NoArg, level |-> "undefined"]
  /\ \E c \in FreshConns :
       /\ tx' = [tx EXCEPT ![c] = "begun"]
       /\ owner' = [owner EXCEPT ![c] = ch]
       /\ held' = [held EXCEPT ![ch] = c]
  /\ UNCHANGED <<stack, exc, runner, commits, rollbacks, cbResult,
                 runResult, beginFailures>>
  /\ UNCHANGED ctorVars

\* async start(): this.#runner.start() rejects, and so does start()
IsoStartFails(ch) ==
  /\ Running(ch) /\ held[ch] = Undefined /\ Len(stack[ch]) < MaxDepth
  /\ beginCalls < MaxBegins
  /\ beginCalls' = beginCalls + 1
  /\ beginFailures' = beginFailures + 1
  /\ lastBegin' = [req |-> NoArg, level |-> "undefined"]
  /\ exc' = [exc EXCEPT ![ch] = "BeginError"]
  /\ UNCHANGED <<stack, held, tx, owner, runner, commits, rollbacks,
                 cbResult, runResult>>
  /\ UNCHANGED ctorVars

\* async commit(): return this.#runner.commit(), called without argument
IsoCommit(ch) ==
  /\ Running(ch)
  /\ commits[Undefined] + rollbacks[Undefined] < MaxCalls
  /\ commits' = [commits EXCEPT ![Undefined] = @ + 1]
  /\ exc' = [exc EXCEPT ![ch] =
               IF RunnerRejects("commit", Undefined) THEN "CommitError" ELSE "none"]
  /\ UNCHANGED <<stack, held, tx, owner, runner, rollbacks, cbResult,
                 runResult, beginCalls, beginFailures, lastBegin>>
  /\ UNCHANGED ctorVars

\* async rollback(): return this.#runner.rollback(), called without argument
IsoRollback(ch) ==
  /\ Running(ch)
  /\ commits[Undefined] + rollbacks[Undefined] < MaxCalls
  /\ rollbacks' = [rollbacks EXCEPT ![Undefined] = @ + 1]
  /\ exc' = [exc EXCEPT ![ch] =
               IF RunnerRejects("rollback", Undefined) THEN "RollbackError" ELSE "none"]
  /\ UNCHANGED <<stack, held, tx, owner, runner, commits, cbResult,
                 runResult, beginCalls, beginFailures, lastBegin>>
  /\ UNCHANGED ctorVars

IsoRunCommitting(ch) ==
  /\ Running(ch) /\ held[ch] # Undefined /\ Len(stack[ch]) < MaxDepth
  /\ LET c == held[ch]
         first == tx[c] = "begun"
     IN /\ stack' = [stack EXCEPT ![ch] = Append(@, [store |-> c, own |-> first])]
        /\ tx' = [tx EXCEPT ![c] = IF first THEN "active" ELSE @]
        /\ commits' = [commits EXCEPT ![c] = @ + 1]
  /\ held' = [held EXCEPT ![ch] = Undefined]
  /\ UNCHANGED <<exc, owner, runner, rollbacks, cbResult,
                 runResult, beginCalls, beginFailures, lastBegin>>
  /\ UNCHANGED ctorVars

\* async run(store, callback): this.#als.run(store, callback) is entered
IsoRun(ch) ==
  /\ Running(ch) /\ held[ch] # Undefined /\ Len(stack[ch]) < MaxDepth
  /\ LET c == held[ch]
         first == tx[c] = "begun"
     IN /\ stack' = [stack EXCEPT ![ch] = Append(@, [store |-> c, own |-> first])]
        /\ tx' = [tx EXCEPT ![c] = IF first THEN "active" ELSE @]
  /\ held' = [held EXCEPT ![ch] = Undefined]
  /\ UNCHANGED <<exc, owner, runner, commits, rollbacks, cbResult,
                 runResult, beginCalls, beginFailures, lastBegin>>
  /\ UNCHANGED ctorVars

IsoNext ==
  \E ch \in Chains :
    \/ IsoStartBegin(ch)
    \/ IsoStartFails(ch)
    \/ IsoCommit(ch)
    \/ IsoRollback(ch)
    \/ IsoRun(ch)
    \/ CallbackResolves(ch)
    \/ CallbackRejects(ch)
    \/ Throw(ch)
    \/ Catch(ch)

IsoSpec == Init /\ [][IsoNext]_vars

\* a program that calls start() of both controllers, constructed over the same
\* Runner and the same AsyncLocalStorage, and run()
StartNext ==
  \E ch \in Chains :
    \/ Start(ch)
    \/ IsoStartBegin(ch)
    \/ IsoStartFails(ch)
    \/ Run(ch)
    \/ CallbackResolves(ch)
    \/ CallbackRejects(ch)
    \/ Catch(ch)

StartSpec == Init /\ [][StartNext]_vars

\* ------------------------------------------------------------ construction
\* the Runners a caller can pass to a constructor
Runners == {"R1", "R2"}
\* the default of the als parameter: `als = null`
NoAls == 0
\* what a caller can pass as als
AlsArgs == 0..NumAls
\* `als || new AsyncLocalStorage()`: the n-th object gets a storage of its own
AlsOf(a, n) == IF a = NoAls THEN NumAls + n ELSE a

\* a constructor without the #instance test: every `new` makes an object
PropagatedNewFresh(r, a) ==
  /\ Len(handles) < MaxConstructions
  /\ LET n == Len(objects) + 1
     IN /\ objects' = Append(objects, [runner |-> r, als |-> AlsOf(a, n)])
        /\ instance' = n
        /\ handles' = Append(handles, [cls |-> "Propagated", runner |-> r,
                                       als |-> a, obj |-> n])
  /\ UNCHANGED received
  /\ UNCHANGED txVars

\* new PropagatedTransaction(runner, als)
PropagatedNew(r, a) ==
  /\ Len(handles) < MaxConstructions
  /\ IF instance # 0
       THEN /\ handles' = Append(handles, [cls |-> "Propagated", runner |-> r,
                                           als |-> a, obj |-> instance])
            /\ UNCHANGED <<instance, objects>>
       ELSE LET n == Len(objects) + 1
            IN /\ objects' = Append(objects, [runner |-> r, als |-> AlsOf(a, n)])
               /\ instance' = n
               /\ handles' = Append(handles, [cls |-> "Propagated", runner |-> r,
                                              als |-> a, obj |-> n])
  /\ UNCHANGED received
  /\ UNCHANGED txVars

\* new IsolatedTransaction(runner, als)
IsolatedNew(r, a) ==
  /\ Len(handles) < MaxConstructions
  /\ LET n == Len(objects) + 1
     IN /\ objects' = Append(objects, [runner |-> r, als |-> AlsOf(a, n)])
        /\ handles' = Append(handles, [cls |-> "Isolated", runner |-> r,
                                       als |-> a, obj |-> n])
  /\ UNCHANGED <<instance, received>>
  /\ UNCHANGED txVars

\* the Runner methods start(), commit() and rollback() call
RunnerOps == {"start", "commit", "rollback"}

\* start(), commit() or rollback() through a handle reaches this.runner
Delegate(h, op) ==
  /\ received' = received \cup
       {[via |-> h, op |-> op, runner |-> objects[handles[h].obj].runner]}
  /\ UNCHANGED <<instance, objects, handles>>
  /\ UNCHANGED txVars

CtorNext ==
  \/ \E r \in Runners, a \in AlsArgs : PropagatedNew(r, a)
  \/ \E r \in Runners, a \in AlsArgs : IsolatedNew(r, a)
  \/ \E h \in DOMAIN handles, op \in RunnerOps : Delegate(h, op)

CtorSpec == Init /\ [][CtorNext]_vars

\* ------------------------------------------------------------------ claims
\* the run() that first bound c has settled
Settled(c) == tx[c] = "settled"
\* the callback of that run() rejected
Rejected(c) == cbResult[c] \notin {"pending"} \cup Values
\* number of times c was passed to Runner.commit or Runner.rollback
Released(c) == commits[c] + rollbacks[c]

\* C1: once the run() that bound a begun Connection C has settled with its
\* callback resolved, Runner.commit was called exactly once with C and
\* Runner.rollback never, whether or not the callback called commit itself.
C1_CommitOnceOnSuccess ==
  \A c \in Conns :
    Settled(c) /\ cbResult[c] \in Values => commits[c] = 1 /\ rollbacks[c] = 0

\* C2: once the run() that bound a begun Connection C has settled with its
\* callback rejected with an error, Runner.rollback was called exactly once
\* with C, Runner.commit never, and when the Runner's rollback does not fail
\* the caller of run() observes that same error.
C2_RollbackOnceOnFailure ==
  \A c \in Conns :
    Settled(c) /\ Rejected(c) =>
      /\ rollbacks[c] = 1
      /\ commits[c] = 0
      /\ (runner # "rollback" => runResult[c] = cbResult[c])

\* C3: at every point of the execution of every chain, whatever the other
\* chains have done in between, the connection accessor returns to a chain
\* that is inside run() a Connection this chain's own start() obtained, never
\* one of another chain.
C3_ChainIsolation ==
  \A ch \in Chains :
    stack[ch] # <<>> => owner[connection(ch)] = ch

\* C3 witness: two interleaved chains are both inside run(), and the accessor
\* returns to each its own Connection, different from the other's.
C3_Witness ==
  \E a, b \in Chains :
    /\ a # b
    /\ stack[a] # <<>> /\ stack[b] # <<>>
    /\ owner[connection(a)] = a /\ owner[connection(b)] = b
    /\ connection(a) # connection(b)

\* C4: inside a chain that has Connection C bound, a nested start() returns C
\* without a new Runner.start call and every nested run() has exactly C as its
\* store.
C4_NestedReuse ==
  \A ch \in Chains :
    stack[ch] # <<>> =>
      /\ held[ch] # Undefined => held[ch] = stack[ch][1].store
      /\ \A i \in 2..Len(stack[ch]) :
           stack[ch][i].store = stack[ch][1].store /\ ~stack[ch][i].own

\* C5: every Connection has been passed to Runner.commit and Runner.rollback
\* at most once in total, and exactly once when the run() that bound it has
\* settled.
C5_ReleasedExactlyOnce ==
  \A c \in Conns :
    /\ Released(c) <= 1
    /\ Settled(c) => Released(c) = 1

\* C6: a commit() or rollback() made by a chain that is inside no run() throws
\* NotInContext and makes no Runner.commit or Runner.rollback call.
C6_NotInContext ==
  [][\A ch \in Chains :
       (Commit(ch) \/ Rollback(ch)) /\ stack[ch] = <<>> =>
         /\ exc'[ch] = "NotInContext"
         /\ commits' = commits
         /\ rollbacks' = rollbacks]_vars

\* C6 witness: a chain outside every run() holds NotInContext and the Runner
\* has received no commit and no rollback.
C6_Witness ==
  \E ch \in Chains :
    /\ stack[ch] = <<>> /\ exc[ch] = "NotInContext"
    /\ \A a \in Args : commits[a] = 0 /\ rollbacks[a] = 0

\* C7: a step in which Runner.start rejects makes exactly one Runner.start
\* call, throws that failure in the calling chain, hands no Connection to the
\* caller, enters no run() scope and makes no Runner.commit or Runner.rollback
\* call.
C7_BeginFailure ==
  [][beginFailures' # beginFailures =>
       /\ beginCalls' = beginCalls + 1
       /\ beginFailures' = beginFailures + 1
       /\ \E ch \in Chains :
            /\ exc[ch] = "none"
            /\ exc' = [exc EXCEPT ![ch] = "BeginError"]
            /\ held'[ch] = Undefined
       /\ UNCHANGED <<stack, held, tx, owner, commits, rollbacks, cbResult, runResult>>]_vars

\* C7 witness: Runner.start has rejected once for a chain that is inside no
\* run(), which now holds the failure; nothing was begun.
C7_Witness ==
  \E ch \in Chains :
    /\ exc[ch] = "BeginError" /\ stack[ch] = <<>> /\ held[ch] = Undefined
    /\ beginFailures = 1 /\ beginCalls = 1

\* C8: once the run() that bound C has settled with its callback rejected with
\* E while the Runner's rollback rejects with R, the caller of run() observes a
\* failure that carries both E and R.
C8_CompositeFailure ==
  \A c \in Conns :
    Settled(c) /\ cbResult[c] = "E" /\ runner = "rollback" =>
      runResult[c] = "Composite(E,RollbackError)"

\* C9: no settled run() leaves the Connection it bound neither committed nor
\* rolled back.
C9_ReleaseGuaranteed ==
  \A c \in Conns : Settled(c) => commits[c] >= 1 \/ rollbacks[c] >= 1

C11_RunResolvesWithValue ==
  \A c \in Conns :
    Settled(c) /\ cbResult[c] \in Values => runResult[c] = cbResult[c]

\* C11 witness: two run() calls have resolved with the two different values
\* their callbacks returned.
C11_Witness ==
  \E c, d \in Conns :
    /\ Settled(c) /\ Settled(d)
    /\ cbResult[c] = "v1" /\ runResult[c] = "v1"
    /\ cbResult[d] = "v2" /\ runResult[d] = "v2"

\* the chain is inside a run(): one it entered has not settled yet
InsideRun(ch) == stack[ch] # <<>>

C13_OwnTransactionPerOutermostRun ==
  /\ \A ch \in Chains :
       /\ stack[ch] # <<>> => stack[ch][1].own
       /\ \A i \in 2..Len(stack[ch]) : ~stack[ch][i].own
       /\ stack[ch] # <<>> /\ held[ch] # Undefined => tx[held[ch]] # "begun"
  /\ \A a, b \in Chains :
       a # b => \A i \in 1..Len(stack[a]), j \in 1..Len(stack[b]) :
                  stack[a][i].store # stack[b][j].store

\* C15: an IsolatedTransaction commit() or rollback() made by a chain that is
\* inside no run() throws NotInContext and makes no Runner.commit or
\* Runner.rollback call.
C15_IsoNotInContext ==
  [][\A ch \in Chains :
       (IsoCommit(ch) \/ IsoRollback(ch)) /\ stack[ch] = <<>> =>
         /\ exc'[ch] = "NotInContext"
         /\ commits' = commits
         /\ rollbacks' = rollbacks]_vars

\* C16: an IsolatedTransaction commit() (rollback()) made inside run(C, callback)
\* makes exactly one Runner.commit (Runner.rollback) call, with C as argument.
C16_IsoDelegatesWithConnection ==
  [][\A ch \in Chains :
       stack[ch] # <<>> =>
         /\ IsoCommit(ch) =>
              /\ commits' = [commits EXCEPT ![connection(ch)] = @ + 1]
              /\ rollbacks' = rollbacks
         /\ IsoRollback(ch) =>
              /\ rollbacks' = [rollbacks EXCEPT ![connection(ch)] = @ + 1]
              /\ commits' = commits]_vars

\* C17: an IsolatedTransaction start() made inside a chain that has Connection
\* C bound returns C without a Runner.start call.
C17_IsoStartReuses ==
  \A ch \in Chains :
    stack[ch] # <<>> /\ held[ch] # Undefined =>
      held[ch] = connection(ch) /\ tx[held[ch]] # "begun"

\* C18: a step in which start(), of either controller, returns a Connection
\* leaves what the accessor returns unchanged in every chain, the calling one
\* included.
C18_StartDoesNotBind ==
  [][\A ch \in Chains :
       held[ch] = Undefined /\ held'[ch] # Undefined =>
         \A o \in Chains : connection(o)' = connection(o)]_vars

\* C18 witness: start() has returned a new Connection to a chain that is inside
\* no run(), and the accessor of that chain is still empty.
C18_Witness ==
  \E ch \in Chains :
    /\ held[ch] # Undefined /\ tx[held[ch]] = "begun"
    /\ stack[ch] = <<>> /\ connection(ch) = Undefined

\* C19: entering and leaving an IsolatedTransaction run() makes no Runner call:
\* the Runner's commit, rollback and start counts change only in the steps of
\* commit(), rollback() and start().
C19_IsoRunMakesNoRunnerCall ==
  [][stack' # stack =>
       UNCHANGED <<commits, rollbacks, beginCalls, beginFailures>>]_vars

\* C19 witness: an IsolatedTransaction run() has resolved while the Runner has
\* received no commit and no rollback at all: the transaction is still open.
C19_Witness ==
  \E c \in Conns :
    /\ Settled(c) /\ runResult[c] \in Values
    /\ \A a \in Args : commits[a] = 0 /\ rollbacks[a] = 0

\* C20: inside IsolatedTransaction.run(C, callback), reading the controller's
\* connection accessor returns C.
C20_IsoAccessor ==
  \A ch \in Chains :
    stack[ch] # <<>> => IsoConnection(ch) = stack[ch][Len(stack[ch])].store

\* C22: the settling of a nested run() changes no Runner.commit or
\* Runner.rollback count, and when an outermost run() resolves (also after its
\* callback caught the error of a nested run()), its Connection has been
\* committed exactly once and never rolled back.
C22_NestedRunNoLifecycle ==
  [][\A ch \in Chains :
       /\ Len(stack[ch]) = 2 /\ Len(stack'[ch]) = 1 =>
            commits' = commits /\ rollbacks' = rollbacks
       /\ Len(stack[ch]) = 1 /\ stack'[ch] = <<>> /\ exc[ch] = "none" =>
            LET c == stack[ch][1].store
            IN commits'[c] = 1 /\ rollbacks'[c] = 0]_vars

\* C23: every run() scope a chain is inside has the Connection of the outermost
\* one as its store: the accessor returns that Connection before, during and
\* after every nested run().
C23_BindingNeverShadowed ==
  \A ch \in Chains :
    \A i \in 1..Len(stack[ch]) : stack[ch][i].store = stack[ch][1].store

\* C24: the step in which a run() settles, resolved or rejected, restores the
\* binding of the calling chain: the accessor returns empty after an outermost
\* run() and the store of the enclosing run() after a nested one.
C24_BindingRestored ==
  [][\A ch \in Chains :
       Len(stack'[ch]) < Len(stack[ch]) =>
         connection(ch)' = IF Len(stack[ch]) = 1 THEN Undefined
                           ELSE stack[ch][Len(stack[ch]) - 1].store]_vars

\* C24 witness: a run() on Connection c has rejected and its chain is, after
\* it, inside one run() only, where the accessor returns the Connection of that
\* run(), still active, and not c.
C24_Witness ==
  \E ch \in Chains, c \in Conns :
    /\ owner[c] = ch /\ Settled(c) /\ Rejected(c)
    /\ Len(stack[ch]) = 1
    /\ connection(ch) # c /\ tx[connection(ch)] = "active"

\* C25: while the callback of the outermost run() that bound a Connection is
\* pending, the Connection has been passed neither to Runner.commit nor to
\* Runner.rollback.
C25_ReleaseOnlyAfterSettle ==
  \A c \in Conns :
    tx[c] \in {"begun", "active"} => commits[c] = 0 /\ rollbacks[c] = 0

\* C26: in the step in which an outermost run() settles for its caller, the
\* Runner.commit or Runner.rollback call for its Connection has been made.
C26_SettlesAfterRelease ==
  [][\A c \in Conns :
       tx[c] = "active" /\ tx'[c] = "settled" => Released(c)' >= 1]_vars

\* C27: with a Runner whose commit fails, a run() whose callback resolved does
\* not resolve with the callback's result: its caller observes the commit error.
C27_CommitFailurePropagates ==
  \A c \in Conns :
    Settled(c) /\ cbResult[c] \in Values /\ runner = "commit" =>
      runResult[c] = "CommitError"

\* C29: a commit() or rollback() step leaves what the accessor returns
\* unchanged in every chain, and one made inside run(C, callback) after C was
\* already passed to the Runner passes C to the Runner once more.
C29_CommitKeepsBinding ==
  [][\A ch \in Chains :
       (Commit(ch) \/ Rollback(ch)) =>
         /\ \A o \in Chains : connection(o)' = connection(o)
         /\ stack[ch] # <<>> /\ Released(connection(ch)) >= 1 =>
              Released(connection(ch))' = Released(connection(ch)) + 1]_vars

\* C29 witness: a chain inside run(C, callback) still reads C after C was
\* passed to the Runner twice, once to commit and once to rollback.
C29_Witness ==
  \E ch \in Chains :
    /\ stack[ch] # <<>> /\ Truthy(connection(ch))
    /\ commits[connection(ch)] = 1 /\ rollbacks[connection(ch)] = 1

\* C30: a commit() or rollback() made inside run(c, callback) never throws
\* NotInContext, whatever value c is, and a start() made there returns c
\* without a Runner.start call.
C30_AnyConnectionIsContext ==
  [][\A ch \in Chains :
       stack[ch] # <<>> =>
         /\ (Commit(ch) \/ Rollback(ch)) => exc'[ch] # "NotInContext"
         /\ Start(ch) => held'[ch] = connection(ch) /\ beginCalls' = beginCalls]_vars

\* C21: every Runner call made through a controller reaches the Runner that
\* controller was constructed with.
C21_DelegatesToOwnRunner ==
  \A m \in received : m.runner = handles[m.via].runner

\* the first construction of PropagatedTransaction
FirstPropagated ==
  CHOOSE i \in DOMAIN handles :
    /\ handles[i].cls = "Propagated"
    /\ \A j \in DOMAIN handles : handles[j].cls = "Propagated" => i <= j

\* C28: every construction of PropagatedTransaction evaluates to the object the
\* first one created, whose runner and als are those of the first construction;
\* the Runner calls made through any of them reach the first one's Runner.
C28_Singleton ==
  \A i \in DOMAIN handles :
    handles[i].cls = "Propagated" =>
      LET f == handles[FirstPropagated]
      IN /\ handles[i].obj = f.obj
         /\ objects[f.obj].runner = f.runner
         /\ objects[f.obj].als = AlsOf(f.als, f.obj)
         /\ \A m \in received : m.via = i => m.runner = f.runner

\* C28 witness: a second construction of PropagatedTransaction, given another
\* runner and another als than the first, has been used for a Runner call, and
\* the call reached the Runner of the first construction.
C28_Witness ==
  \E i, j \in DOMAIN handles :
    /\ i < j
    /\ handles[i].cls = "Propagated" /\ handles[j].cls = "Propagated"
    /\ handles[i].runner # handles[j].runner
    /\ handles[i].als # handles[j].als /\ handles[j].als # NoAls
    /\ \E m \in received : m.via = j /\ m.runner = handles[i].runner

\* C31: a start() made inside a run(), whatever isolation level it asks for,
\* forwards no level to the Runner and raises no error: the last level the
\* Runner was given stays the one of the outermost invocation.
C31_NestedLevelNotForwarded ==
  [][\A ch \in Chains :
       stack[ch] # <<>> /\ Start(ch) =>
         lastBegin' = lastBegin /\ exc'[ch] = "none"]_vars

====
